---- MODULE Spec2Model ----
(***************************************************************************)
(* Model of actor/pushaction/route.go: the route calculation and the       *)
(* create / map / unmap reconciliation of the push action.                 *)
(*                                                                         *)
(* Go strings are finite sequences of one-character strings, so that       *)
(* strings.Count, strings.SplitN and strings.Join are computed and not     *)
(* assumed.  A Go nil slice and an empty slice are both << >>.             *)
(***************************************************************************)
EXTENDS Integers, Sequences, FiniteSets, TLC

VARIABLES
    pc,        \* position of the invocation under way
    args,      \* arguments of the invocation under way
    local,     \* local variables of the invocation under way
    calls,     \* external client calls issued by the invocation, in call order
    ret,       \* what the invocation returned
    bound      \* platform side: GUIDs of the routes bound to the application

vars == <<pc, args, local, calls, ret, bound>>

\* ------------------------------------------------------------------ bounds
\* longest hostname drawn for the domain matcher
MaxLen == 5
\* longest desiredRoutes / currentRoutes list drawn
MaxRoutes == 3
\* longest list of raw route strings drawn for CalculateRoutes
MaxRaw == 2

\* ----------------------------------------------------------- Go strings
Alphabet == {"a", "b", "."}
Letters == {"a", "b", "h", "t", "p", "x"}
Digits == {"0", "1", "2"}

\* the sequences over A of length at most n
SeqsUpTo(A, n) == UNION {[1..k -> A] : k \in 0..n}

\* strings.Count(s, c) for a one-character c
Count(s, c) == Cardinality({i \in 1..Len(s) : s[i] = c})

\* strings.Index(s, c) + 1, 0 when c does not occur
IndexOf(s, c) ==
    IF \E i \in 1..Len(s) : s[i] = c
    THEN CHOOSE i \in 1..Len(s) : s[i] = c /\ \A j \in 1..(i-1) : s[j] # c
    ELSE 0

\* strings.SplitN(s, c, n) for n >= 0: nil for n = 0, at most n pieces, the
\* last one the unsplit rest
RECURSIVE SplitN(_, _, _)
SplitN(s, c, n) ==
    IF n = 0 THEN << >>
    ELSE IF n = 1 \/ IndexOf(s, c) = 0 THEN <<s>>
    ELSE <<SubSeq(s, 1, IndexOf(s, c) - 1)>>
             \o SplitN(SubSeq(s, IndexOf(s, c) + 1, Len(s)), c, n - 1)

\* strings.Join(parts, c)
RECURSIVE Join(_, _)
Join(parts, c) ==
    IF parts = << >> THEN << >>
    ELSE IF Len(parts) = 1 THEN parts[1]
    ELSE parts[1] \o <<c>> \o Join(Tail(parts), c)

\* ------------------------------------------------------------- v2action
HTTP == "http"
TCP == "tcp"
Owned == "owned"
Shared == "shared"

Domain(name, guid, rgt, type) ==
    [Name |-> name, GUID |-> guid, RouterGroupType |-> rgt, Type |-> type]

\* v2action.Domain{}
NoDomain == Domain(<< >>, "", HTTP, Owned)

IsTCP(domain) == domain.RouterGroupType = TCP
IsHTTP(domain) == domain.RouterGroupType = HTTP
IsShared(domain) == domain.Type = Shared

\* the domains the platform may have registered
DomainPool ==
    { Domain(<<"a">>, "d-a", HTTP, Shared),
      Domain(<<"b", ".", "a">>, "d-ba", HTTP, Shared),
      Domain(<<"a", ".", "b", ".", "a">>, "d-aba", HTTP, Owned),
      Domain(<<".", "a">>, "d-.a", HTTP, Owned),
      Domain(<<"b", ".", "b">>, "d-bb", TCP, Shared) }

\* nameToFoundDomain built from a list of found domains (route.go 73-77)
NameToDomain(found) ==
    [n \in {d.Name : d \in found} |-> CHOOSE d \in found : d.Name = n]

\* --------------------------------------------------------- errors
NoError == [type |-> "nil"]
DomainNotFoundError(name) == [type |-> "DomainNotFoundError", Name |-> name]

\* ------------------------------------------------------- Domain Matcher
\* a splitHost that splits at every dot and keeps the first two labels only
splitHost_SplitAll(url) ==
    LET count == Count(url, ".")
        split == SplitN(url, ".", count + 1)
    IN  IF count = 1 THEN [panic |-> FALSE, host |-> << >>, domain |-> url]
        ELSE IF Len(split) < 2 THEN [panic |-> TRUE, host |-> << >>, domain |-> << >>]
        ELSE [panic |-> FALSE, host |-> split[1], domain |-> split[2]]

\* splitHost: a runtime panic (index out of range on split[1]) when url has
\* no dot
splitHost(url) ==
    LET count == Count(url, ".")
        split == SplitN(url, ".", 2)
    IN  IF count = 1 THEN [panic |-> FALSE, host |-> << >>, domain |-> url]
        ELSE IF Len(split) < 2 THEN [panic |-> TRUE, host |-> << >>, domain |-> << >>]
        ELSE [panic |-> FALSE, host |-> split[1], domain |-> split[2]]

RECURSIVE calculateRoute(_, _)
calculateRoute(route, domainCache) ==
    LET sh == splitHost(route)
    IN  IF sh.panic
        THEN [panic |-> TRUE, hosts |-> << >>, domain |-> NoDomain, err |-> NoError]
        ELSE IF route \in DOMAIN domainCache
        THEN [panic |-> FALSE, hosts |-> << >>, domain |-> domainCache[route],
              err |-> NoError]
        ELSE IF sh.host = << >>
        THEN [panic |-> FALSE, hosts |-> << >>, domain |-> NoDomain,
              err |-> DomainNotFoundError(route)]
        ELSE LET r == calculateRoute(sh.domain, domainCache)
             IN  [r EXCEPT !.hosts = <<sh.host>> \o @]

\* the keys calculateRoute looks up in domainCache (route.go 300), over the
\* whole recursion
RECURSIVE domainCacheReads(_, _)
domainCacheReads(route, domainCache) ==
    LET sh == splitHost(route)
    IN  IF sh.panic THEN {}
        ELSE IF route \in DOMAIN domainCache \/ sh.host = << >> THEN {route}
        ELSE {route} \cup domainCacheReads(sh.domain, domainCache)

\* ---------------------------------------------------------- Route Parser
HasPrefix(s, p) == Len(s) >= Len(p) /\ SubSeq(s, 1, Len(p)) = p

\* number of leading letters of s
LeadingLetters(s) ==
    CHOOSE k \in 0..Len(s) :
        /\ \A i \in 1..k : s[i] \in Letters
        /\ (k < Len(s) => s[k + 1] \notin Letters)

\* actor.startWithProtocol: a run of letters followed by "://" at the start;
\* the length of the match, 0 when there is none
ProtocolLen(route) ==
    LET k == LeadingLetters(route)
    IN  IF HasPrefix(SubSeq(route, k + 1, Len(route)), <<":", "/", "/">>)
        THEN k + 3 ELSE 0

startWithProtocol(route) == ProtocolLen(route) > 0

\* actor.startWithProtocol.ReplaceAllString(route, "")
StripProtocol(route) == SubSeq(route, ProtocolLen(route) + 1, Len(route))

LastIndexOf(s, c) ==
    IF \E i \in 1..Len(s) : s[i] = c
    THEN CHOOSE i \in 1..Len(s) : s[i] = c /\ \A j \in (i+1)..Len(s) : s[j] # c
    ELSE 0

DigitValue(c) == CASE c = "0" -> 0 [] c = "1" -> 1 [] c = "2" -> 2

\* strconv.ParseInt of a string of digits
RECURSIVE ParseInt(_)
ParseInt(s) ==
    IF s = << >> THEN 0
    ELSE 10 * ParseInt(SubSeq(s, 1, Len(s) - 1)) + DigitValue(s[Len(s)])

\* types.NullInt
NullInt == [IsSet |-> FALSE, Value |-> 0]
SetInt(n) == [IsSet |-> TRUE, Value |-> n]

MalformedRouteError(route) == [type |-> "MalformedRouteError", Route |-> route]

\* parseURL over scheme://host[:port][/path]: url.Parse refuses an empty
\* scheme and a port that is not a run of digits
parseURL(rawRoute) ==
    LET route == IF startWithProtocol(rawRoute) THEN rawRoute
                 ELSE <<"h", "t", "t", "p", ":", "/", "/">> \o rawRoute
        scheme == SubSeq(route, 1, ProtocolLen(route) - 3)
        rest == StripProtocol(route)
        slash == IndexOf(rest, "/")
        authority == IF slash = 0 THEN rest ELSE SubSeq(rest, 1, slash - 1)
        uri == IF slash = 0 THEN <<"/">> ELSE SubSeq(rest, slash, Len(rest))
        colon == LastIndexOf(authority, ":")
        hostname == IF colon = 0 THEN authority ELSE SubSeq(authority, 1, colon - 1)
        portStr == IF colon = 0 THEN << >>
                   ELSE SubSeq(authority, colon + 1, Len(authority))
        bad == \/ scheme = << >>
               \/ \E i \in 1..Len(portStr) : portStr[i] \notin Digits
    IN  IF bad
        THEN [host |-> << >>, port |-> NullInt, path |-> << >>,
              err |-> MalformedRouteError(rawRoute)]
        ELSE [host |-> hostname,
              port |-> IF portStr = << >> THEN NullInt ELSE SetInt(ParseInt(portStr)),
              path |-> IF uri = <<"/">> THEN << >> ELSE uri,
              err |-> NoError]

\* the hostnames of a list of raw routes (route.go 331-338)
RECURSIVE Hostnames(_)
Hostnames(routes) ==
    IF routes = << >> THEN << >>
    ELSE <<parseURL(routes[1]).host>> \o Hostnames(Tail(routes))

\* candidates cut at every dot, the top-level label included
possibleDomainsOf_EveryLabel(route) ==
    LET count == Count(route, ".")
        domains == SplitN(route, ".", count + 1)
    IN  {Join(SubSeq(domains, i, Len(domains)), ".") : i \in 1..Len(domains)}

\* the hostname itself as its only candidate
possibleDomainsOf_FullNameOnly(route) ==
    IF Count(route, ".") = 0 THEN {} ELSE {route}

\* the candidate names of one hostname (route.go 342-348)
possibleDomainsOf(route) ==
    LET count == Count(route, ".")
        domains == SplitN(route, ".", count)
    IN  {Join(SubSeq(domains, i, Len(domains)), ".") : i \in 1..Len(domains)}

generatePossibleDomains(routes) ==
    IF \E i \in 1..Len(routes) : parseURL(routes[i]).err # NoError
    THEN [domains |-> {},
          err |-> parseURL(routes[CHOOSE i \in 1..Len(routes) :
                      /\ parseURL(routes[i]).err # NoError
                      /\ \A j \in 1..(i-1) : parseURL(routes[j]).err = NoError]).err]
    ELSE [domains |-> UNION {possibleDomainsOf(Hostnames(routes)[i]) :
                               i \in 1..Len(routes)},
          err |-> NoError]

\* ------------------------------------------------- the invocation harness
NoRet == [op |-> "none"]

\* raw route strings with a scheme, a port, a path, or a malformed port
RawPool ==
    { <<"b", ".", "a">>,
      <<"a", ".", "b", ".", "a">>,
      <<"h", "t", "t", "p", ":", "/", "/", "a", ".", "b", ".", "a", "/", "p">>,
      <<"b", ".", "b", ":", "1">>,
      <<"b", ".", "a", ":", "x">>,
      <<"a">> }

\* --- Domain Matcher resolve, applied to one hostname and one domain cache
InitResolve ==
    /\ pc = "start"
    /\ args \in [route : SeqsUpTo(Alphabet, MaxLen),
                 domainCache : {NameToDomain(D) : D \in SUBSET DomainPool}]
    /\ local = << >>
    /\ calls = << >>
    /\ ret = NoRet
    /\ bound = {}

Resolve ==
    /\ pc = "start"
    /\ LET r == calculateRoute(args.route, args.domainCache)
       IN  IF r.panic
           THEN pc' = "panic" /\ ret' = NoRet
           ELSE pc' = "done" /\ ret' = [op |-> "calculateRoute", hosts |-> r.hosts,
                                        domain |-> r.domain, err |-> r.err]
    /\ UNCHANGED <<args, local, calls, bound>>

SpecResolve == InitResolve /\ [][Resolve]_vars

\* --- generatePossibleDomains, applied to a list of raw routes
InitSuffix ==
    /\ pc = "start"
    /\ args \in [routes : {<<h>> : h \in SeqsUpTo(Alphabet, MaxLen)}
                          \cup {<<h, r>> : h \in SeqsUpTo(Alphabet, MaxLen - 1),
                                           r \in RawPool}]
    /\ local = << >>
    /\ calls = << >>
    /\ ret = NoRet
    /\ bound = {}

Suffixes ==
    /\ pc = "start"
    /\ pc' = "done"
    /\ LET r == generatePossibleDomains(args.routes)
       IN  ret' = [op |-> "generatePossibleDomains", domains |-> r.domains,
                   err |-> r.err]
    /\ UNCHANGED <<args, local, calls, bound>>

SpecSuffix == InitSuffix /\ [][Suffixes]_vars

\* ------------------------------------------------------ Route Reconciler
Route(guid, host, domain, path, port, space) ==
    [GUID |-> guid, Host |-> host, Domain |-> domain, Path |-> path,
     Port |-> port, SpaceGUID |-> space]

HTTPDomain == Domain(<<"b", ".", "a">>, "d-ba", HTTP, Shared)
TCPDomain == Domain(<<"b", ".", "b">>, "d-bb", TCP, Shared)

\* routes that exist on the platform; RouteA and RouteA2 share a GUID
RouteA == Route("r1", <<"a">>, HTTPDomain, << >>, NullInt, "space")
RouteA2 == Route("r1", <<"b">>, HTTPDomain, <<"/", "p">>, NullInt, "space")
RouteB == Route("r2", << >>, TCPDomain, << >>, SetInt(1), "space")
\* routes still to be created
NewHTTPRoute == Route("", <<"b">>, HTTPDomain, <<"/", "p">>, NullInt, "space")
NewTCPRoute == Route("", << >>, TCPDomain, << >>, NullInt, "space")
NewTCPPortRoute == Route("", << >>, TCPDomain, << >>, SetInt(2), "space")

ExistingPool == {RouteA, RouteA2, RouteB}
CreatePool == {RouteA, NewHTTPRoute, NewTCPRoute, NewTCPPortRoute}

Application(guid, name) == [GUID |-> guid, Name |-> name]

ApplicationConfig(app, desired, current) ==
    [DesiredApplication |-> app, DesiredRoutes |-> desired, CurrentRoutes |-> current]

\* ApplicationConfig{}
EmptyConfig == ApplicationConfig(Application("", << >>), << >>, << >>)

App == Application("app", <<"a", "p", "p">>)

\* the warning the n-th external call of an invocation may return
WarningOf(n) == <<"warning", n>>
WarningsOf(n) == {<< >>, <<WarningOf(n)>>}

\* what the client answers to a call: its warnings and its error
APIError == [type |-> "APIError"]
RouteInDifferentSpaceError(route) == [type |-> "RouteInDifferentSpaceError", Route |-> route]
RouteNotFoundError == [type |-> "RouteNotFoundError"]

GUIDsOf(routes) == {routes[i].GUID : i \in 1..Len(routes)}

\* the warnings of the calls issued so far, in call order
RECURSIVE WarningsOfCalls(_)
WarningsOfCalls(cs) ==
    IF cs = << >> THEN << >> ELSE cs[1].warnings \o WarningsOfCalls(Tail(cs))

routeInListByGUID_Whole(route, routes) ==
    \E i \in 1..Len(routes) : routes[i] = route

routeInListByGUID(route, routes) ==
    \E i \in 1..Len(routes) : routes[i].GUID = route.GUID

\* ---- MapRoutes
\* Route.String()
FormatInt(n) == <<CHOOSE d \in Digits : DigitValue(d) = n>>

RouteString(r) ==
    LET base == IF r.Port.IsSet THEN r.Domain.Name \o <<":">> \o FormatInt(r.Port.Value)
                ELSE IF r.Host # << >> THEN r.Host \o <<".">> \o r.Domain.Name
                ELSE r.Domain.Name
    IN  IF r.Path # << >>
        THEN base \o (IF r.Path[1] = "/" THEN r.Path ELSE <<"/">> \o r.Path)
        ELSE base

\* mapRouteToApp: the error of MapRouteToApplication, a
\* RouteInDifferentSpaceError renamed after the route
mapRouteToApp(route, err) ==
    IF err.type = "RouteInDifferentSpaceError"
    THEN RouteInDifferentSpaceError(RouteString(route))
    ELSE err

MapErrors == {NoError, APIError, RouteInDifferentSpaceError(<< >>)}

InitMap ==
    /\ pc = "MapRoutes"
    /\ \E desired \in SeqsUpTo(ExistingPool, MaxRoutes),
          current \in SeqsUpTo(ExistingPool, MaxRoutes - 1) :
          /\ args = [config |-> ApplicationConfig(App, desired, current)]
          /\ bound = GUIDsOf(current)
    /\ local = [i |-> 1, boundRoutes |-> FALSE, allWarnings |-> << >>]
    /\ calls = << >>
    /\ ret = NoRet

MapRoutesFailed_KeepConfig(allWarnings, err) ==
    [op |-> "MapRoutes", config |-> args.config, boundRoutes |-> FALSE,
     warnings |-> allWarnings, err |-> err]

\* route.go 29
MapRoutesFailed(allWarnings, err) ==
    [op |-> "MapRoutes", config |-> EmptyConfig, boundRoutes |-> FALSE,
     warnings |-> allWarnings, err |-> err]

\* route.go 23, 32-34: the route is already in CurrentRoutes
MapRoutesSkip ==
    /\ pc = "MapRoutes"
    /\ local.i <= Len(args.config.DesiredRoutes)
    /\ routeInListByGUID(args.config.DesiredRoutes[local.i], args.config.CurrentRoutes)
    /\ local' = [local EXCEPT !.i = @ + 1]
    /\ UNCHANGED <<pc, args, calls, ret, bound>>

\* route.go 23-31: one MapRouteToApplication call and what follows it
MapRoutesBind ==
    /\ pc = "MapRoutes"
    /\ local.i <= Len(args.config.DesiredRoutes)
    /\ LET route == args.config.DesiredRoutes[local.i]
       IN  /\ ~routeInListByGUID(route, args.config.CurrentRoutes)
           /\ \E warnings \in WarningsOf(Len(calls) + 1), clientErr \in MapErrors :
                 LET err == mapRouteToApp(route, clientErr)
                     allWarnings == local.allWarnings \o warnings
                 IN  /\ calls' = Append(calls,
                            [fn |-> "MapRouteToApplication", routeGUID |-> route.GUID,
                             appGUID |-> args.config.DesiredApplication.GUID,
                             warnings |-> warnings, err |-> clientErr])
                     /\ IF err # NoError
                        THEN /\ ret' = MapRoutesFailed(allWarnings, err)
                             /\ pc' = "done"
                             /\ local' = [local EXCEPT !.allWarnings = allWarnings]
                             /\ UNCHANGED bound
                        ELSE /\ local' = [local EXCEPT !.allWarnings = allWarnings,
                                                       !.boundRoutes = TRUE,
                                                       !.i = @ + 1]
                             /\ bound' = bound \cup {route.GUID}
                             /\ UNCHANGED <<pc, ret>>
    /\ UNCHANGED args

\* a return that leaves CurrentRoutes as it was given
MapRoutesDone_KeepCurrent(boundRoutes, allWarnings) ==
    [op |-> "MapRoutes", config |-> args.config, boundRoutes |-> boundRoutes,
     warnings |-> allWarnings, err |-> NoError]

\* route.go 37, 39
MapRoutesDone(boundRoutes, allWarnings) ==
    [op |-> "MapRoutes",
     config |-> [args.config EXCEPT !.CurrentRoutes = args.config.DesiredRoutes],
     boundRoutes |-> boundRoutes,
     warnings |-> allWarnings, err |-> NoError]

\* route.go 36-39
MapRoutesReturn ==
    /\ pc = "MapRoutes"
    /\ local.i > Len(args.config.DesiredRoutes)
    /\ ret' = MapRoutesDone(local.boundRoutes, local.allWarnings)
    /\ pc' = "done"
    /\ UNCHANGED <<args, local, calls, bound>>

NextMap == MapRoutesSkip \/ MapRoutesBind \/ MapRoutesReturn

SpecMap == InitMap /\ [][NextMap]_vars

\* ---- UnmapRoutes
UnmapErrors == {NoError, APIError}

InitUnmap ==
    /\ pc = "UnmapRoutes"
    /\ \E desired \in SeqsUpTo(ExistingPool, 1),
          current \in SeqsUpTo(ExistingPool, MaxRoutes) :
          /\ args = [config |-> ApplicationConfig(App, desired, current)]
          /\ bound = GUIDsOf(current)
    /\ local = [i |-> 1, warnings |-> << >>]
    /\ calls = << >>
    /\ ret = NoRet

UnmapRoutesFailed_DropUnbound(warnings, err) ==
    [op |-> "UnmapRoutes",
     config |-> [args.config EXCEPT !.CurrentRoutes =
                    SubSeq(@, local.i, Len(@))],
     warnings |-> warnings, err |-> err]

\* route.go 50
UnmapRoutesFailed(warnings, err) ==
    [op |-> "UnmapRoutes", config |-> args.config, warnings |-> warnings, err |-> err]

\* route.go 46-52: one UnmapRouteFromApplication call and what follows it
UnmapRoutesUnbind ==
    /\ pc = "UnmapRoutes"
    /\ local.i <= Len(args.config.CurrentRoutes)
    /\ LET route == args.config.CurrentRoutes[local.i]
       IN  \E routeWarnings \in WarningsOf(Len(calls) + 1), err \in UnmapErrors :
              LET warnings == local.warnings \o routeWarnings
              IN  /\ calls' = Append(calls,
                         [fn |-> "UnmapRouteFromApplication", routeGUID |-> route.GUID,
                          appGUID |-> args.config.DesiredApplication.GUID,
                          warnings |-> routeWarnings, err |-> err])
                  /\ IF err # NoError
                     THEN /\ ret' = UnmapRoutesFailed(warnings, err)
                          /\ pc' = "done"
                          /\ local' = [local EXCEPT !.warnings = warnings]
                          /\ UNCHANGED bound
                     ELSE /\ local' = [local EXCEPT !.warnings = warnings, !.i = @ + 1]
                          /\ bound' = bound \ {route.GUID}
                          /\ UNCHANGED <<pc, ret>>
    /\ UNCHANGED args

\* a return that leaves the desired routes as the current ones
UnmapRoutesDone_KeepDesired(warnings) ==
    [op |-> "UnmapRoutes",
     config |-> [args.config EXCEPT !.CurrentRoutes = args.config.DesiredRoutes],
     warnings |-> warnings, err |-> NoError]

\* route.go 53, 55
UnmapRoutesDone(warnings) ==
    [op |-> "UnmapRoutes",
     config |-> [args.config EXCEPT !.CurrentRoutes = << >>],
     warnings |-> warnings, err |-> NoError]

\* route.go 53-55
UnmapRoutesReturn ==
    /\ pc = "UnmapRoutes"
    /\ local.i > Len(args.config.CurrentRoutes)
    /\ ret' = UnmapRoutesDone(local.warnings)
    /\ pc' = "done"
    /\ UNCHANGED <<args, local, calls, bound>>

NextUnmap == UnmapRoutesUnbind \/ UnmapRoutesReturn

SpecUnmap == InitUnmap /\ [][NextUnmap]_vars

\* ---- CreateRoutes
\* Route.RandomTCPPort(): a TCP domain and no port set
RandomTCPPort(route) == IsTCP(route.Domain) /\ ~route.Port.IsSet

NewGUIDs == {"c1", "c2"}
RandomPorts == {SetInt(2)}

\* V2Actor.CreateRoute: the routes the client may return for a created
\* route: the route with a GUID, and with a port when one is to be allocated
CreatedRoutes(route, generatePort) ==
    {[route EXCEPT !.GUID = g, !.Port = p] :
        g \in NewGUIDs,
        p \in IF generatePort THEN RandomPorts ELSE {route.Port}}

CreateErrors == {NoError, APIError}

InitCreate ==
    /\ pc = "CreateRoutes"
    /\ \E desired \in SeqsUpTo(CreatePool, MaxRoutes),
          current \in SeqsUpTo(ExistingPool, 1) :
          /\ args = [config |-> ApplicationConfig(App, desired, current)]
          /\ bound = GUIDsOf(current)
    /\ local = [i |-> 1, routes |-> << >>, createdRoutes |-> FALSE,
                allWarnings |-> << >>]
    /\ calls = << >>
    /\ ret = NoRet

CreateRoutesFailed_Flag(allWarnings, err) ==
    [op |-> "CreateRoutes", config |-> EmptyConfig,
     createdRoutes |-> local.createdRoutes,
     warnings |-> allWarnings, err |-> err]

\* route.go 180
CreateRoutesFailed(allWarnings, err) ==
    [op |-> "CreateRoutes", config |-> EmptyConfig, createdRoutes |-> TRUE,
     warnings |-> allWarnings, err |-> err]

CreateRoutesKeep_Input(routes, route, createdRoute) == Append(routes, route)

\* route.go 182: the created route takes the place of the desired one
CreateRoutesKeep(routes, route, createdRoute) == Append(routes, createdRoute)

\* route.go 173-184: one CreateRoute call and what follows it
CreateRoutesCreate ==
    /\ pc = "CreateRoutes"
    /\ local.i <= Len(args.config.DesiredRoutes)
    /\ LET route == args.config.DesiredRoutes[local.i]
       IN  /\ route.GUID = ""
           /\ \E warnings \in WarningsOf(Len(calls) + 1), err \in CreateErrors,
                 createdRoute \in CreatedRoutes(route, RandomTCPPort(route)) :
                 LET allWarnings == local.allWarnings \o warnings
                 IN  /\ calls' = Append(calls,
                            [fn |-> "CreateRoute", route |-> route,
                             generatePort |-> RandomTCPPort(route),
                             warnings |-> warnings, err |-> err])
                     /\ IF err # NoError
                        THEN /\ ret' = CreateRoutesFailed(allWarnings, err)
                             /\ pc' = "done"
                             /\ local' = [local EXCEPT !.allWarnings = allWarnings]
                        ELSE /\ local' = [local EXCEPT
                                    !.allWarnings = allWarnings,
                                    !.routes = CreateRoutesKeep(@, route, createdRoute),
                                    !.createdRoutes = TRUE,
                                    !.i = @ + 1]
                             /\ UNCHANGED <<pc, ret>>
    /\ UNCHANGED <<args, bound>>

\* route.go 185-188: the route exists already
CreateRoutesSkip ==
    /\ pc = "CreateRoutes"
    /\ local.i <= Len(args.config.DesiredRoutes)
    /\ args.config.DesiredRoutes[local.i].GUID # ""
    /\ local' = [local EXCEPT !.routes = Append(@, args.config.DesiredRoutes[local.i]),
                              !.i = @ + 1]
    /\ UNCHANGED <<pc, args, calls, ret, bound>>

\* route.go 190-192
CreateRoutesReturn ==
    /\ pc = "CreateRoutes"
    /\ local.i > Len(args.config.DesiredRoutes)
    /\ ret' = [op |-> "CreateRoutes",
               config |-> [args.config EXCEPT !.DesiredRoutes = local.routes],
               createdRoutes |-> local.createdRoutes,
               warnings |-> local.allWarnings, err |-> NoError]
    /\ pc' = "done"
    /\ UNCHANGED <<args, local, calls, bound>>

NextCreate == CreateRoutesCreate \/ CreateRoutesSkip \/ CreateRoutesReturn

SpecCreate == InitCreate /\ [][NextCreate]_vars

\* ------------------------------------------------------- Route Calculator
\* raw route strings given to CalculateRoutes
CalcRawPool ==
    { <<"a", ".", "b", ".", "a">>,
      <<"h", "t", "t", "p", ":", "/", "/", "a", ".", "b", ".", "a">>,
      <<"b", ".", "b", ".", "a", "/", "p">>,
      <<"b", ".", "b", ":", "1">>,
      <<"b", ".", "a", ":", "2">>,
      <<"b", ".", "a", ":", "x">>,
      <<"b", ".", "b", "/", "p">>,
      <<"a">> }

NoRoute == Route("", << >>, NoDomain, << >>, NullInt, "")

NoMatchingDomainError(route) == [type |-> "NoMatchingDomainError", Route |-> route]
InvalidHTTPRouteSettings(name) == [type |-> "InvalidHTTPRouteSettings", Domain |-> name]
InvalidTCPRouteSettings(name) == [type |-> "InvalidTCPRouteSettings", Domain |-> name]

\* Route.Validate(): no port on an HTTP domain, no path on a TCP domain
Validate(r) ==
    IF IsHTTP(r.Domain) /\ r.Port.IsSet THEN InvalidHTTPRouteSettings(r.Domain.Name)
    ELSE IF IsTCP(r.Domain) /\ r.Path # << >> THEN InvalidTCPRouteSettings(r.Domain.Name)
    ELSE NoError

routeInListByName_NoStrip(route, routes) ==
    \E i \in 1..Len(routes) : RouteString(routes[i]) = route

routeInListByName(route, routes) ==
    LET strippedRoute == StripProtocol(route)
    IN  \E i \in 1..Len(routes) : RouteString(routes[i]) = strippedRoute

RECURSIVE unknownRoutesOf(_, _)
unknownRoutesOf(routes, existingRoutes) ==
    IF routes = << >> THEN << >>
    ELSE (IF routeInListByName(routes[1], existingRoutes) THEN << >> ELSE <<routes[1]>>)
             \o unknownRoutesOf(Tail(routes), existingRoutes)

splitExistingRoutes(routes, existingRoutes) ==
    [cachedRoutes |-> existingRoutes,
     unknownRoutes |-> unknownRoutesOf(routes, existingRoutes)]

FoundGUIDs == {"f1"}

\* V2Actor.FindRouteBoundToSpaceWithSettings: the route found, a
\* RouteNotFoundError, or another error
LookupAnswers(route) ==
    {[route |-> [route EXCEPT !.GUID = g], err |-> NoError] : g \in FoundGUIDs}
        \cup {[route |-> NoRoute, err |-> e] : e \in {RouteNotFoundError, APIError}}

findOrReturnPartialRouteWithSettings_Propagate(route, answer) ==
    [route |-> answer.route, err |-> answer.err]

\* findOrReturnPartialRouteWithSettings, given the client's answer
findOrReturnPartialRouteWithSettings(route, answer) ==
    IF answer.err.type = "RouteNotFoundError"
    THEN [route |-> route, err |-> NoError]
    ELSE [route |-> answer.route, err |-> answer.err]

\* the domains GetDomainsByNameAndOrganization may find among the names
FoundDomains(names) == SUBSET {d \in DomainPool : d.Name \in names}

InitCalc ==
    /\ pc = "CalculateRoutes"
    /\ args \in [op : {"CalculateRoutes"},
                 routes : SeqsUpTo(CalcRawPool, MaxRaw),
                 orgGUID : {"org"},
                 spaceGUID : {"space"},
                 existingRoutes : SeqsUpTo(ExistingPool, MaxRaw - 1)]
    /\ local = [calculatedRoutes |-> << >>, unknownRoutes |-> << >>,
                possibleDomains |-> {}, nameToFoundDomain |-> << >>,
                allWarnings |-> << >>, i |-> 1,
                root |-> << >>, port |-> NullInt, path |-> << >>,
                potentialRoute |-> NoRoute]
    /\ calls = << >>
    /\ ret = NoRet
    /\ bound = {}

CalcFailed(allWarnings, err) ==
    [op |-> "CalculateRoutes", routes |-> << >>, warnings |-> allWarnings, err |-> err]

\* route.go 59-64: the known routes are set apart and the candidate domain
\* names of the others computed; a raw route that does not parse ends the call
CalcSplit ==
    /\ pc = "CalculateRoutes"
    /\ \E split \in {splitExistingRoutes(args.routes, args.existingRoutes)} :
       \E possible \in {generatePossibleDomains(split.unknownRoutes)} :
          /\ local' = [local EXCEPT !.calculatedRoutes = split.cachedRoutes,
                                    !.unknownRoutes = split.unknownRoutes,
                                    !.possibleDomains = possible.domains]
          /\ IF possible.err # NoError
             THEN ret' = CalcFailed(<< >>, possible.err) /\ pc' = "done"
             ELSE pc' = "CalcDomains" /\ UNCHANGED ret
    /\ UNCHANGED <<args, calls, bound>>

\* route.go 66-77: the batched domain lookup
CalcDomains ==
    /\ pc = "CalcDomains"
    /\ \E warnings \in WarningsOf(Len(calls) + 1), err \in {NoError, APIError} :
       \E foundDomains \in IF err = NoError THEN FoundDomains(local.possibleDomains)
                           ELSE {{}} :
          /\ calls' = Append(calls,
                 [fn |-> "GetDomainsByNameAndOrganization",
                  names |-> local.possibleDomains, orgGUID |-> args.orgGUID,
                  warnings |-> warnings, err |-> err])
          /\ local' = [local EXCEPT
                 !.allWarnings = warnings,
                 !.nameToFoundDomain = NameToDomain(foundDomains)]
          /\ IF err # NoError
             THEN ret' = CalcFailed(warnings, err) /\ pc' = "done"
             ELSE pc' = "CalcLoop" /\ UNCHANGED ret
    /\ UNCHANGED <<args, bound>>

\* route.go 79-86: the next unknown route is parsed
CalcParse ==
    /\ pc = "CalcLoop"
    /\ local.i <= Len(local.unknownRoutes)
    /\ \E p \in {parseURL(local.unknownRoutes[local.i])} :
          IF p.err # NoError
          THEN /\ ret' = CalcFailed(local.allWarnings, p.err)
               /\ pc' = "done"
               /\ UNCHANGED local
          ELSE /\ local' = [local EXCEPT !.root = p.host, !.port = p.port,
                                         !.path = p.path]
               /\ pc' = "CalcResolve"
               /\ UNCHANGED ret
    /\ UNCHANGED <<args, calls, bound>>

\* route.go 88, 473-474: splitHost indexes past the end of split
CalcPanic ==
    /\ pc = "CalcResolve"
    /\ calculateRoute(local.root, local.nameToFoundDomain).panic
    /\ pc' = "panic"
    /\ UNCHANGED <<args, local, calls, ret, bound>>

\* the error of calculateRoute handed on as it is
CalcDomainErr_LowLevel(route, domainErr) == domainErr

\* route.go 89-95: the error returned for a failed calculateRoute
CalcDomainErr(route, domainErr) ==
    IF domainErr.type = "DomainNotFoundError" THEN NoMatchingDomainError(route)
    ELSE domainErr

\* route.go 88-95: no domain for the hostname
CalcNoDomain ==
    /\ pc = "CalcResolve"
    /\ \E r \in {calculateRoute(local.root, local.nameToFoundDomain)} :
          /\ ~r.panic
          /\ r.err # NoError
          /\ ret' = CalcFailed(local.allWarnings,
                        CalcDomainErr(local.unknownRoutes[local.i], r.err))
    /\ pc' = "done"
    /\ UNCHANGED <<args, local, calls, bound>>

\* route.go 88, 97-108: the potential route and its validation
CalcPotential ==
    /\ pc = "CalcResolve"
    /\ \E r \in {calculateRoute(local.root, local.nameToFoundDomain)} :
          /\ ~r.panic
          /\ r.err = NoError
          /\ \E potentialRoute \in {Route("", Join(r.hosts, "."), r.domain, local.path,
                                          local.port, args.spaceGUID)} :
             \E validationErr \in {Validate(potentialRoute)} :
                /\ local' = [local EXCEPT !.potentialRoute = potentialRoute]
                /\ IF validationErr # NoError
                   THEN ret' = CalcFailed(local.allWarnings, validationErr) /\ pc' = "done"
                   ELSE pc' = "CalcLookup" /\ UNCHANGED ret
    /\ UNCHANGED <<args, calls, bound>>

\* route.go 110-117: the structural route lookup
CalcRouteLookup ==
    /\ pc = "CalcLookup"
    /\ \E routeWarnings \in WarningsOf(Len(calls) + 1),
          answer \in LookupAnswers(local.potentialRoute) :
          LET found == findOrReturnPartialRouteWithSettings(local.potentialRoute, answer)
              allWarnings == local.allWarnings \o routeWarnings
          IN  /\ calls' = Append(calls,
                     [fn |-> "FindRouteBoundToSpaceWithSettings",
                      route |-> local.potentialRoute,
                      warnings |-> routeWarnings, err |-> answer.err])
              /\ IF found.err # NoError
                 THEN /\ ret' = CalcFailed(allWarnings, found.err)
                      /\ pc' = "done"
                      /\ local' = [local EXCEPT !.allWarnings = allWarnings]
                 ELSE /\ local' = [local EXCEPT
                             !.allWarnings = allWarnings,
                             !.calculatedRoutes = Append(@, found.route),
                             !.i = @ + 1]
                      /\ pc' = "CalcLoop"
                      /\ UNCHANGED ret
    /\ UNCHANGED <<args, bound>>

\* route.go 120
CalcReturn ==
    /\ pc = "CalcLoop"
    /\ local.i > Len(local.unknownRoutes)
    /\ ret' = [op |-> "CalculateRoutes", routes |-> local.calculatedRoutes,
               warnings |-> local.allWarnings, err |-> NoError]
    /\ pc' = "done"
    /\ UNCHANGED <<args, local, calls, bound>>

NextCalc ==
    \/ CalcSplit \/ CalcDomains \/ CalcParse \/ CalcPanic \/ CalcNoDomain
    \/ CalcPotential \/ CalcRouteLookup \/ CalcReturn

SpecCalc == InitCalc /\ [][NextCalc]_vars

\* ----------------------------------------------------- Hostname Sanitizer
LowerCase == {"a", "b", "m", "p", "y"}
UpperCase == {"A", "B", "M"}
ToLower(c) == CASE c = "A" -> "a" [] c = "B" -> "b" [] c = "M" -> "m" [] OTHER -> c

\* strings.Trim(s, cutset) for a one-character cutset; strings.TrimSpace is
\* Trim by the space
RECURSIVE Trim(_, _)
Trim(s, c) ==
    IF s = << >> THEN s
    ELSE IF s[1] = c THEN Trim(Tail(s), c)
    ELSE IF s[Len(s)] = c THEN Trim(SubSeq(s, 1, Len(s) - 1), c)
    ELSE s

\* white space as unicode.IsSpace sees it
Whitespace == {" ", "\t"}

\* strings.TrimSpace
RECURSIVE TrimSpace(_)
TrimSpace(s) ==
    IF s = << >> THEN s
    ELSE IF s[1] \in Whitespace THEN TrimSpace(Tail(s))
    ELSE IF s[Len(s)] \in Whitespace THEN TrimSpace(SubSeq(s, 1, Len(s) - 1))
    ELSE s

\* a sanitizeRune that keeps the case of an uppercase letter
sanitizeRune_KeepCase(runeChar) ==
    IF runeChar \in LowerCase THEN <<runeChar>>
    ELSE IF runeChar \in UpperCase THEN <<runeChar>>
    ELSE IF runeChar = " " \/ runeChar = "-" THEN <<"-">>
    ELSE IF runeChar \in Digits THEN <<runeChar>>
    ELSE << >>

\* route.go 428-442: what one character adds to sanitizedName
sanitizeRune(runeChar) ==
    IF runeChar \in LowerCase THEN <<runeChar>>
    ELSE IF runeChar \in UpperCase THEN <<ToLower(runeChar)>>
    ELSE IF runeChar = " " \/ runeChar = "-" THEN <<"-">>
    ELSE IF runeChar \in Digits THEN <<runeChar>>
    ELSE << >>

RECURSIVE sanitizedNameOf(_)
sanitizedNameOf(s) ==
    IF s = << >> THEN << >> ELSE sanitizeRune(s[1]) \o sanitizedNameOf(Tail(s))

sanitize(name) ==
    LET trimmed == TrimSpace(name)
        validCount == Cardinality({i \in 1..Len(trimmed) :
                          trimmed[i] \in LowerCase \cup UpperCase \cup Digits})
    IN  IF validCount > 0 THEN Trim(sanitizedNameOf(trimmed), "-") ELSE << >>

\* --- sanitize, applied to a name and then to its own result
\* longest name drawn
MaxName == 3

NameChars == {"a", "A", "0", " ", "-", "_", "\t"}

InitSanitize ==
    /\ pc = "sanitize"
    /\ args \in [name : SeqsUpTo(NameChars, MaxName)
                         \cup { <<" ", "M", "y", " ", "A", "p", "p", "!", " ">>,
                                <<"-", "-", "-">>,
                                <<"A", "_", "B">>,
                                <<"\t", "-", "a", " ", "\t", "b", "-", " ">> }]
    /\ local = << >>
    /\ calls = << >>
    /\ ret = NoRet
    /\ bound = {}

Sanitize ==
    /\ pc = "sanitize"
    /\ pc' = "sanitized"
    /\ ret' = [op |-> "sanitize", name |-> sanitize(args.name)]
    /\ UNCHANGED <<args, local, calls, bound>>

SanitizeAgain ==
    /\ pc = "sanitized"
    /\ pc' = "done"
    /\ local' = [op |-> "sanitize", name |-> sanitize(ret.name)]
    /\ UNCHANGED <<args, calls, ret, bound>>

NextSanitize == Sanitize \/ SanitizeAgain

SpecSanitize == InitSanitize /\ [][NextSanitize]_vars

\* ------------------------------------------------ Default Route Synthesis
ManifestApp(name, domain, hostname, noHostname, routePath) ==
    [Name |-> name, Domain |-> domain, Hostname |-> hostname,
     NoHostname |-> noHostname, RoutePath |-> routePath]

HostnameWithTCPDomainError == [type |-> "HostnameWithTCPDomainError"]
NoHostnameAndSharedDomainError == [type |-> "NoHostnameAndSharedDomainError"]
RoutePathWithTCPDomainError == [type |-> "RoutePathWithTCPDomainError"]

OwnedDomain == Domain(<<"a", ".", "b", ".", "a">>, "d-aba", HTTP, Owned)

\* the domains an organization may have
OrgDomains == {HTTPDomain, OwnedDomain, TCPDomain}

AppNames ==
    { <<"a", "p", "p">>,
      <<" ", "M", "y", " ", "A", "p", "p", "!", " ">>,
      <<"-", "-", "-">> }

ManifestApps ==
    {ManifestApp(name, domain, hostname, noHostname, routePath) :
        name \in AppNames,
        domain \in {<< >>, <<"b", ".", "a">>, <<"b", ".", "b">>},
        hostname \in {<< >>, <<"b">>, <<"A", "_", "B">>},
        noHostname \in BOOLEAN,
        routePath \in {<< >>, <<"/", "p">>}}

\* a route the caller already knows
KnownRoute == Route("k1", <<"b">>, HTTPDomain, << >>, NullInt, "space")

calculateHostname_FlagFirst(manifestApp, domain) ==
    LET hostname == IF manifestApp.Hostname = << >> THEN manifestApp.Name
                    ELSE manifestApp.Hostname
        sanitizedHostname == sanitize(hostname)
    IN  IF manifestApp.Hostname # << >> /\ IsTCP(domain)
        THEN [host |-> << >>, err |-> HostnameWithTCPDomainError]
        ELSE IF manifestApp.NoHostname
        THEN [host |-> << >>, err |-> NoError]
        ELSE IF manifestApp.NoHostname /\ IsShared(domain) /\ IsHTTP(domain)
        THEN [host |-> << >>, err |-> NoHostnameAndSharedDomainError]
        ELSE IF IsHTTP(domain)
        THEN [host |-> sanitizedHostname, err |-> NoError]
        ELSE [host |-> << >>, err |-> NoError]

\* a calculateHostname whose default case keeps the sanitized hostname
calculateHostname_HostOnTCP(manifestApp, domain) ==
    LET hostname == IF manifestApp.Hostname = << >> THEN manifestApp.Name
                    ELSE manifestApp.Hostname
        sanitizedHostname == sanitize(hostname)
    IN  IF manifestApp.Hostname # << >> /\ IsTCP(domain)
        THEN [host |-> << >>, err |-> HostnameWithTCPDomainError]
        ELSE IF manifestApp.NoHostname /\ IsShared(domain) /\ IsHTTP(domain)
        THEN [host |-> << >>, err |-> NoHostnameAndSharedDomainError]
        ELSE IF manifestApp.NoHostname
        THEN [host |-> << >>, err |-> NoError]
        ELSE [host |-> sanitizedHostname, err |-> NoError]

calculateHostname(manifestApp, domain) ==
    LET hostname == IF manifestApp.Hostname = << >> THEN manifestApp.Name
                    ELSE manifestApp.Hostname
        sanitizedHostname == sanitize(hostname)
    IN  IF manifestApp.Hostname # << >> /\ IsTCP(domain)
        THEN [host |-> << >>, err |-> HostnameWithTCPDomainError]
        ELSE IF manifestApp.NoHostname /\ IsShared(domain) /\ IsHTTP(domain)
        THEN [host |-> << >>, err |-> NoHostnameAndSharedDomainError]
        ELSE IF manifestApp.NoHostname
        THEN [host |-> << >>, err |-> NoError]
        ELSE IF IsHTTP(domain)
        THEN [host |-> sanitizedHostname, err |-> NoError]
        ELSE [host |-> << >>, err |-> NoError]

calculatePath(manifestApp, domain) ==
    IF manifestApp.RoutePath # << >> /\ IsTCP(domain)
    THEN [path |-> << >>, err |-> RoutePathWithTCPDomainError]
    ELSE [path |-> manifestApp.RoutePath, err |-> NoError]

SameSettings(r, route) ==
    /\ r.Host = route.Host /\ r.Path = route.Path /\ r.Port = route.Port
    /\ r.SpaceGUID = route.SpaceGUID /\ r.Domain.GUID = route.Domain.GUID

\* a routeInListBySettings that compares the GUIDs
routeInListBySettings_ByGUID(route, routes) ==
    IF \E i \in 1..Len(routes) : routes[i].GUID = route.GUID
    THEN [route |-> routes[CHOOSE i \in 1..Len(routes) : routes[i].GUID = route.GUID],
          found |-> TRUE]
    ELSE [route |-> NoRoute, found |-> FALSE]

routeInListBySettings(route, routes) ==
    IF \E i \in 1..Len(routes) : SameSettings(routes[i], route)
    THEN [route |-> routes[CHOOSE i \in 1..Len(routes) :
                       /\ SameSettings(routes[i], route)
                       /\ \A j \in 1..(i-1) : ~SameSettings(routes[j], route)],
          found |-> TRUE]
    ELSE [route |-> NoRoute, found |-> FALSE]

InitGen ==
    /\ pc = "GetGeneratedRoute"
    /\ args \in [op : {"GetGeneratedRoute"},
                 manifestApp : ManifestApps,
                 orgGUID : {"org"},
                 spaceGUID : {"space"},
                 knownRoutes : SeqsUpTo({KnownRoute}, 1)]
    /\ local = [desiredDomain |-> NoDomain, warnings |-> << >>]
    /\ calls = << >>
    /\ ret = NoRet
    /\ bound = {}

\* a return that forgets the warnings when it carries an error
GenReturn_DropOnError(route, warnings, err) ==
    [op |-> "GetGeneratedRoute", route |-> route,
     warnings |-> IF err = NoError THEN warnings ELSE << >>, err |-> err]

GenReturn(route, warnings, err) ==
    [op |-> "GetGeneratedRoute", route |-> route, warnings |-> warnings, err |-> err]

\* route.go 198-201, 252-257: calculateDomain with no domain in the manifest
GenDefaultDomain ==
    /\ pc = "GetGeneratedRoute"
    /\ args.manifestApp.Domain = << >>
    /\ \E warnings \in WarningsOf(Len(calls) + 1), err \in {NoError, APIError} :
       \E desiredDomain \in IF err = NoError THEN OrgDomains ELSE {NoDomain} :
          /\ calls' = Append(calls,
                 [fn |-> "DefaultDomain", orgGUID |-> args.orgGUID,
                  warnings |-> warnings, err |-> err])
          /\ local' = [local EXCEPT !.warnings = warnings,
                                    !.desiredDomain = desiredDomain]
          /\ IF err # NoError
             THEN ret' = GenReturn(NoRoute, warnings, err) /\ pc' = "done"
             ELSE pc' = "GenLocal" /\ UNCHANGED ret
    /\ UNCHANGED <<args, bound>>

\* route.go 198-201, 258-271: calculateDomain with the manifest's domain
GenNamedDomain ==
    /\ pc = "GetGeneratedRoute"
    /\ args.manifestApp.Domain # << >>
    /\ \E getDomainWarnings \in WarningsOf(Len(calls) + 1),
          getDomainsErr \in {NoError, APIError} :
       \E desiredDomains \in
             IF getDomainsErr = NoError
             THEN SeqsUpTo({d \in OrgDomains : d.Name = args.manifestApp.Domain}, 1)
             ELSE {<< >>} :
          LET err == IF getDomainsErr # NoError THEN getDomainsErr
                     ELSE IF Len(desiredDomains) = 0
                     THEN DomainNotFoundError(args.manifestApp.Domain)
                     ELSE NoError
          IN  /\ calls' = Append(calls,
                     [fn |-> "GetDomainsByNameAndOrganization",
                      names |-> {args.manifestApp.Domain}, orgGUID |-> args.orgGUID,
                      warnings |-> getDomainWarnings, err |-> getDomainsErr])
              /\ local' = [local EXCEPT
                     !.warnings = getDomainWarnings,
                     !.desiredDomain = IF err = NoError THEN desiredDomains[1]
                                       ELSE NoDomain]
              /\ IF err # NoError
                 THEN ret' = GenReturn(NoRoute, getDomainWarnings, err) /\ pc' = "done"
                 ELSE pc' = "GenLocal" /\ UNCHANGED ret
    /\ UNCHANGED <<args, bound>>

\* the default route built without the hostname and path checks
GenLocal_Unvalidated ==
    [err |-> NoError,
     route |-> Route("", calculateHostname(args.manifestApp, local.desiredDomain).host,
                     local.desiredDomain, args.manifestApp.RoutePath, NullInt,
                     args.spaceGUID)]

\* route.go 203-218: the hostname and the path, then the default route
GenLocal ==
    LET h == calculateHostname(args.manifestApp, local.desiredDomain)
        p == calculatePath(args.manifestApp, local.desiredDomain)
    IN  IF h.err # NoError THEN [err |-> h.err, route |-> NoRoute]
        ELSE IF p.err # NoError THEN [err |-> p.err, route |-> NoRoute]
        ELSE [err |-> NoError,
              route |-> Route("", h.host, local.desiredDomain, p.path, NullInt,
                              args.spaceGUID)]

\* route.go 204-206, 209-211
GenInvalid ==
    /\ pc = "GenLocal"
    /\ GenLocal.err # NoError
    /\ ret' = GenReturn(NoRoute, local.warnings, GenLocal.err)
    /\ pc' = "done"
    /\ UNCHANGED <<args, local, calls, bound>>

\* route.go 222-224
GenTCP ==
    /\ pc = "GenLocal"
    /\ GenLocal.err = NoError
    /\ IsTCP(local.desiredDomain)
    /\ ret' = GenReturn(GenLocal.route, local.warnings, NoError)
    /\ pc' = "done"
    /\ UNCHANGED <<args, local, calls, bound>>

\* route.go 226, 234
GenCached ==
    /\ pc = "GenLocal"
    /\ GenLocal.err = NoError
    /\ ~IsTCP(local.desiredDomain)
    /\ routeInListBySettings(GenLocal.route, args.knownRoutes).found
    /\ ret' = GenReturn(routeInListBySettings(GenLocal.route, args.knownRoutes).route,
                        local.warnings, NoError)
    /\ pc' = "done"
    /\ UNCHANGED <<args, local, calls, bound>>

\* route.go 229-232: what GetGeneratedRoute makes of the client's answer
GenFound(defaultRoute, answer) ==
    IF answer.err.type = "RouteNotFoundError"
    THEN [route |-> defaultRoute, err |-> NoError]
    ELSE [route |-> answer.route, err |-> answer.err]

\* route.go 226-233
GenLookup ==
    /\ pc = "GenLocal"
    /\ GenLocal.err = NoError
    /\ ~IsTCP(local.desiredDomain)
    /\ ~routeInListBySettings(GenLocal.route, args.knownRoutes).found
    /\ \E routeWarnings \in WarningsOf(Len(calls) + 1),
          answer \in LookupAnswers(GenLocal.route) :
          /\ calls' = Append(calls,
                 [fn |-> "FindRouteBoundToSpaceWithSettings", route |-> GenLocal.route,
                  warnings |-> routeWarnings, err |-> answer.err])
          /\ ret' = GenReturn(GenFound(GenLocal.route, answer).route,
                              local.warnings \o routeWarnings,
                              GenFound(GenLocal.route, answer).err)
    /\ pc' = "done"
    /\ UNCHANGED <<args, local, bound>>

NextGen ==
    \/ GenDefaultDomain \/ GenNamedDomain \/ GenInvalid \/ GenTCP \/ GenCached
    \/ GenLookup

SpecGen == InitGen /\ [][NextGen]_vars

\* ------------------------------- CreateAndMapDefaultApplicationRoute
\* getDefaultRoute: the application name as host on the default domain
getDefaultRoute(spaceGUID, appName, defaultDomain) ==
    Route("", appName, defaultDomain, << >>, NullInt, spaceGUID)

\* the route lists GetApplicationRoutes may return
AppRouteLists(app, spaceGUID) ==
    SeqsUpTo({RouteA} \cup {Route("b1", app.Name, d, << >>, NullInt, spaceGUID) :
                               d \in OrgDomains}, 1)

\* what is known of the platform when an invocation starts: nothing, or
\* the default domain and the routes of the application that the
\* invocation before it has seen and left
NoPlatform == [known |-> FALSE, domain |-> NoDomain, appRoutes |-> << >>]

\* the domains DefaultDomain may return
DefaultDomainAnswers ==
    IF args.platform.known THEN {args.platform.domain} ELSE OrgDomains

\* the route lists GetApplicationRoutes may return
AppRouteAnswers ==
    IF args.platform.known THEN {args.platform.appRoutes}
    ELSE AppRouteLists(args.app, args.spaceGUID)

DefaultLocal ==
    [defaultRoute |-> NoRoute, boundRoutes |-> << >>, spaceRoute |-> NoRoute,
     warnings |-> << >>]

InitDefault ==
    /\ pc = "CreateAndMapDefaultApplicationRoute"
    /\ args \in [op : {"CreateAndMapDefaultApplicationRoute"},
                 orgGUID : {"org"},
                 spaceGUID : {"space"},
                 app : {Application("app", name) : name \in AppNames},
                 platform : {NoPlatform}]
    /\ local = DefaultLocal
    /\ calls = << >>
    /\ ret = NoRet
    /\ bound = {}

DefaultReturn(warnings, err) ==
    [op |-> "CreateAndMapDefaultApplicationRoute", warnings |-> warnings, err |-> err]

\* route.go 125-129, 360-371
DefaultDomainCall ==
    /\ pc = "CreateAndMapDefaultApplicationRoute"
    /\ \E domainWarnings \in WarningsOf(Len(calls) + 1), err \in {NoError, APIError} :
       \E defaultDomain \in IF err = NoError THEN DefaultDomainAnswers ELSE {NoDomain} :
          /\ calls' = Append(calls,
                 [fn |-> "DefaultDomain", orgGUID |-> args.orgGUID,
                  warnings |-> domainWarnings, err |-> err])
          /\ local' = [local EXCEPT
                 !.warnings = domainWarnings,
                 !.defaultRoute = IF err = NoError
                                  THEN getDefaultRoute(args.spaceGUID, args.app.Name,
                                                       defaultDomain)
                                  ELSE NoRoute]
          /\ IF err # NoError
             THEN ret' = DefaultReturn(domainWarnings, err) /\ pc' = "done"
             ELSE pc' = "DefaultAppRoutes" /\ UNCHANGED ret
    /\ UNCHANGED <<args, bound>>

\* route.go 131-140
DefaultAppRoutes ==
    /\ pc = "DefaultAppRoutes"
    /\ \E appRouteWarnings \in WarningsOf(Len(calls) + 1), err \in {NoError, APIError} :
       \E boundRoutes \in IF err = NoError THEN AppRouteAnswers ELSE {<< >>} :
          LET warnings == local.warnings \o appRouteWarnings
          IN  /\ calls' = Append(calls,
                     [fn |-> "GetApplicationRoutes", appGUID |-> args.app.GUID,
                      warnings |-> appRouteWarnings, err |-> err])
              /\ local' = [local EXCEPT !.warnings = warnings,
                                        !.boundRoutes = boundRoutes]
              /\ IF err # NoError
                 THEN ret' = DefaultReturn(warnings, err) /\ pc' = "done"
                 ELSE IF routeInListBySettings(local.defaultRoute, boundRoutes).found
                 THEN ret' = DefaultReturn(warnings, NoError) /\ pc' = "done"
                 ELSE pc' = "DefaultLookup" /\ UNCHANGED ret
    /\ UNCHANGED <<args, bound>>

\* route.go 144-149: what the lookup's error means
DefaultRouteExists(err) ==
    IF err.type = "RouteNotFoundError" THEN [exists |-> FALSE, err |-> NoError]
    ELSE [exists |-> TRUE, err |-> err]

\* route.go 142-149
DefaultLookup ==
    /\ pc = "DefaultLookup"
    /\ \E spaceRouteWarnings \in WarningsOf(Len(calls) + 1),
          answer \in LookupAnswers(local.defaultRoute) :
          LET warnings == local.warnings \o spaceRouteWarnings
              known == DefaultRouteExists(answer.err)
          IN  /\ calls' = Append(calls,
                     [fn |-> "FindRouteBoundToSpaceWithSettings",
                      route |-> local.defaultRoute,
                      warnings |-> spaceRouteWarnings, err |-> answer.err])
              /\ local' = [local EXCEPT !.warnings = warnings,
                                        !.spaceRoute = answer.route]
              /\ IF known.err # NoError
                 THEN ret' = DefaultReturn(warnings, known.err) /\ pc' = "done"
                 ELSE IF known.exists
                 THEN pc' = "DefaultMap" /\ UNCHANGED ret
                 ELSE pc' = "DefaultCreate" /\ UNCHANGED ret
    /\ UNCHANGED <<args, bound>>

\* route.go 151-158
DefaultCreate ==
    /\ pc = "DefaultCreate"
    /\ \E createRouteWarning \in WarningsOf(Len(calls) + 1), err \in CreateErrors,
          createdRoute \in CreatedRoutes(local.defaultRoute, FALSE) :
          LET warnings == local.warnings \o createRouteWarning
          IN  /\ calls' = Append(calls,
                     [fn |-> "CreateRoute", route |-> local.defaultRoute,
                      generatePort |-> FALSE,
                      warnings |-> createRouteWarning, err |-> err])
              /\ local' = [local EXCEPT
                     !.warnings = warnings,
                     !.spaceRoute = IF err = NoError THEN createdRoute ELSE NoRoute]
              /\ IF err # NoError
                 THEN ret' = DefaultReturn(warnings, err) /\ pc' = "done"
                 ELSE pc' = "DefaultMap" /\ UNCHANGED ret
    /\ UNCHANGED <<args, bound>>

\* route.go 160-162
DefaultMap ==
    /\ pc = "DefaultMap"
    /\ \E mapWarnings \in WarningsOf(Len(calls) + 1), err \in MapErrors :
          /\ calls' = Append(calls,
                 [fn |-> "MapRouteToApplication", routeGUID |-> local.spaceRoute.GUID,
                  appGUID |-> args.app.GUID,
                  warnings |-> mapWarnings, err |-> err])
          /\ local' = [local EXCEPT !.warnings = @ \o mapWarnings]
          /\ ret' = DefaultReturn(local.warnings \o mapWarnings, err)
          /\ bound' = IF err = NoError THEN bound \cup {local.spaceRoute.GUID} ELSE bound
    /\ pc' = "done"
    /\ UNCHANGED args

NextDefault ==
    \/ DefaultDomainCall \/ DefaultAppRoutes \/ DefaultLookup \/ DefaultCreate
    \/ DefaultMap

SpecDefault == InitDefault /\ [][NextDefault]_vars

\* ---- CreateAndMapDefaultApplicationRoute invoked again after it succeeded,
\* on a platform that has the same default domain and lists, for the
\* application, the routes it listed before and the route just mapped
DefaultAgain ==
    /\ pc = "done"
    /\ ret.op = "CreateAndMapDefaultApplicationRoute"
    /\ ret.err = NoError
    /\ ~args.platform.known
    /\ args' = [args EXCEPT !.platform =
                   [known |-> TRUE,
                    domain |-> local.defaultRoute.Domain,
                    appRoutes |->
                        IF calls[Len(calls)].fn = "MapRouteToApplication"
                        THEN Append(local.boundRoutes, local.spaceRoute)
                        ELSE local.boundRoutes]]
    /\ pc' = "CreateAndMapDefaultApplicationRoute"
    /\ local' = DefaultLocal
    /\ calls' = << >>
    /\ ret' = NoRet
    /\ UNCHANGED bound

NextDefaultTwice == NextDefault \/ DefaultAgain

SpecDefaultTwice == InitDefault /\ [][NextDefaultTwice]_vars

\* ---- the three operations that look a route up by its settings
InitLookups == InitCalc \/ InitGen \/ InitDefault

NextLookups == NextCalc \/ NextGen \/ NextDefault

SpecLookups == InitLookups /\ [][NextLookups]_vars

\* ---- every public operation, one invocation of one of them
InitOps == InitMap \/ InitUnmap \/ InitCreate \/ InitCalc \/ InitGen \/ InitDefault

NextOps == NextMap \/ NextUnmap \/ NextCreate \/ NextCalc \/ NextGen \/ NextDefault

SpecOps == InitOps /\ [][NextOps]_vars

\* ---- MapRoutes and UnmapRoutes in sequence: the caller hands the
\* configuration one invocation returned to the next one, with the desired
\* routes of its choice, and stops at the first error
\* longest sequence of invocations
MaxChain == 3

\* the route lists a configuration is given
ChainLists ==
    { << >>, <<RouteA>>, <<RouteB>>, <<RouteA, RouteB>>, <<RouteB, RouteA2>> }

\* the local variables at the start of an invocation
ChainLocal(op) ==
    IF op = "MapRoutes" THEN [i |-> 1, boundRoutes |-> FALSE, allWarnings |-> << >>]
    ELSE [i |-> 1, warnings |-> << >>]

\* every current route is, by its GUID, among the desired routes
Covering(op, config) ==
    op = "MapRoutes" =>
        GUIDsOf(config.CurrentRoutes) \subseteq GUIDsOf(config.DesiredRoutes)

\* args.n counts the invocations; args.covering records that every
\* MapRoutes invocation so far was given a covering configuration
InitChain ==
    /\ \E op \in {"MapRoutes", "UnmapRoutes"}, desired \in ChainLists, current \in ChainLists :
          LET config == ApplicationConfig(App, desired, current)
          IN  /\ pc = op
              /\ args = [config |-> config, n |-> 1, covering |-> Covering(op, config)]
              /\ local = ChainLocal(op)
              /\ bound = GUIDsOf(current)
    /\ calls = << >>
    /\ ret = NoRet

ChainInvoke ==
    /\ pc = "done"
    /\ ret.err = NoError
    /\ args.n < MaxChain
    /\ \E op \in {"MapRoutes", "UnmapRoutes"}, desired \in ChainLists :
          LET config == [ret.config EXCEPT !.DesiredRoutes = desired]
          IN  /\ pc' = op
              /\ args' = [config |-> config, n |-> args.n + 1,
                          covering |-> args.covering /\ Covering(op, config)]
              /\ local' = ChainLocal(op)
    /\ calls' = << >>
    /\ ret' = NoRet
    /\ UNCHANGED bound

NextChain == NextMap \/ NextUnmap \/ ChainInvoke

SpecChain == InitChain /\ [][NextChain]_vars

\* ------------------------------------------------------------- properties
\* every label of h, left to right
AllLabels(h) == SplitN(h, ".", Count(h, ".") + 1)

\* the dot-delimited suffix of h that starts at its i-th label
SuffixFrom(h, i) == Join(SubSeq(AllLabels(h), i, Len(AllLabels(h))), ".")

\* the non-empty right-hand dot-delimited suffixes of h, read off its
\* characters
DotSuffixes(h) ==
    {SubSeq(h, i, Len(h)) :
        i \in {1} \cup {j + 1 : j \in {k \in 1..Len(h) : h[k] = "."}}} \ {<< >>}

\* what resolve returned is the longest suffix among the start labels in
\* `tested`, with the labels stripped before it; DomainNotFoundError when
\* none of them is a known domain
LongestMatchOf(tested) ==
    LET h == args.route
        hit == {i \in tested : SuffixFrom(h, i) \in DOMAIN args.domainCache}
    IN  IF hit = {}
        THEN ret.err.type = "DomainNotFoundError"
        ELSE LET i == CHOOSE k \in hit : \A m \in hit : k <= m
             IN  /\ ret.err = NoError
                 /\ ret.domain = args.domainCache[SuffixFrom(h, i)]
                 /\ ret.hosts = SubSeq(AllLabels(h), 1, i - 1)

C2_AllSuffixesDownToTopLabel ==
    (pc = "done" /\ ret.err = NoError) =>
        ret.domains = UNION {DotSuffixes(parseURL(args.routes[i]).host) :
                               i \in 1..Len(args.routes)}

\* C2 amended: the candidates are the duplicate-free union of the suffixes
\* that contain at least one dot, from the full hostname down to its last
\* two labels; the single top-level label is never a candidate and a
\* hostname without a dot contributes nothing.
C2_SuffixesWithADot ==
    (pc = "done" /\ ret.err = NoError) =>
        ret.domains = UNION {{x \in DotSuffixes(parseURL(args.routes[i]).host) :
                                 Count(x, ".") >= 1} : i \in 1..Len(args.routes)}

\* "a.b.a" gives exactly {"a.b.a", "b.a"}
C2_Witness ==
    /\ pc = "done"
    /\ args.routes = <<(<<"a", ".", "b", ".", "a">>)>>
    /\ ret.domains = {<<"a", ".", "b", ".", "a">>, <<"b", ".", "a">>}

\* C3: a failed bind call is the last call of the invocation; MapRoutes then
\* returns the empty configuration, the error and the warnings of every
\* call issued, the failing one included; the routes bound by the earlier
\* calls stay bound and the returned configuration does not show them.
C3_MapFailureResets ==
    \A k \in 1..Len(calls) :
        calls[k].err # NoError =>
            /\ k = Len(calls)
            /\ pc = "done"
            /\ ret.config = EmptyConfig
            /\ ret.err # NoError
            /\ ret.err.type = calls[k].err.type
            /\ ret.warnings = WarningsOfCalls(calls)
            /\ \A j \in 1..(k-1) : calls[j].routeGUID \in bound

\* the second bind call fails after the first one bound a new route
C3_Witness ==
    /\ pc = "done"
    /\ Len(calls) = 2
    /\ calls[2].err # NoError
    /\ calls[1].warnings # << >>
    /\ calls[2].warnings # << >>
    /\ calls[1].routeGUID \notin GUIDsOf(args.config.CurrentRoutes)

\* C4: without a failure the bind calls are, in desired order, one for each
\* desired route whose GUID is the GUID of no current route; CurrentRoutes
\* is returned equal to DesiredRoutes and the flag tells whether a bind call
\* was issued (none and FALSE when every desired GUID is already current).
C4_MapBindsTheMissing ==
    (pc = "done" /\ ret.err = NoError) =>
        LET cfg == args.config
            missing == SelectSeq(cfg.DesiredRoutes,
                           LAMBDA r : r.GUID \notin GUIDsOf(cfg.CurrentRoutes))
        IN  /\ Len(calls) = Len(missing)
            /\ \A k \in 1..Len(calls) :
                  /\ calls[k].fn = "MapRouteToApplication"
                  /\ calls[k].routeGUID = missing[k].GUID
                  /\ calls[k].appGUID = cfg.DesiredApplication.GUID
            /\ ret.config = ApplicationConfig(cfg.DesiredApplication,
                                cfg.DesiredRoutes, cfg.DesiredRoutes)
            /\ ret.boundRoutes = (calls # << >>)

\* three desired routes, one of them skipped by its GUID although its other
\* fields differ from the current route's
C4_Witness ==
    /\ pc = "done"
    /\ ret.err = NoError
    /\ args.config.DesiredRoutes = <<RouteB, RouteA2, RouteB>>
    /\ args.config.CurrentRoutes = <<RouteA>>
    /\ Len(calls) = 2

\* C5: when the k-th unbind call fails exactly k calls were issued, for the
\* first k current routes in order, and UnmapRoutes returns the error, the
\* warnings of those k calls and the configuration it was given, every
\* current route retained.
C5_UnmapFailureKeepsConfig ==
    \A k \in 1..Len(calls) :
        calls[k].err # NoError =>
            /\ k = Len(calls)
            /\ pc = "done"
            /\ \A j \in 1..k :
                  /\ calls[j].fn = "UnmapRouteFromApplication"
                  /\ calls[j].routeGUID = args.config.CurrentRoutes[j].GUID
            /\ ret.err = calls[k].err
            /\ ret.warnings = WarningsOfCalls(calls)
            /\ ret.config = args.config

\* the second of three unbind calls fails
C5_Witness ==
    /\ pc = "done"
    /\ Len(args.config.CurrentRoutes) = 3
    /\ Len(calls) = 2
    /\ calls[2].err # NoError
    /\ calls[1].warnings # << >>
    /\ args.config.CurrentRoutes[1].GUID \notin bound

\* C6 as stated: after a successful CreateRoutes every desired route that
\* had no GUID has one and keeps its host, domain, path, port and space;
\* the routes that had a GUID are returned unchanged at their position.
C6_CreateKeepsAllFields ==
    (pc = "done" /\ ret.err = NoError) =>
        /\ Len(ret.config.DesiredRoutes) = Len(args.config.DesiredRoutes)
        /\ \A k \in 1..Len(args.config.DesiredRoutes) :
              LET in == args.config.DesiredRoutes[k]
                  out == ret.config.DesiredRoutes[k]
              IN  IF in.GUID = ""
                  THEN out.GUID # "" /\ out = [in EXCEPT !.GUID = out.GUID]
                  ELSE out = in

\* C6 amended: as stated, except that the port of a created route is the
\* input port only when no random port was requested; a route on a TCP
\* domain with no port set comes back with the port the platform allocated.
C6_CreateKeepsFieldsButRandomPort ==
    (pc = "done" /\ ret.err = NoError) =>
        /\ Len(ret.config.DesiredRoutes) = Len(args.config.DesiredRoutes)
        /\ \A k \in 1..Len(args.config.DesiredRoutes) :
              LET in == args.config.DesiredRoutes[k]
                  out == ret.config.DesiredRoutes[k]
              IN  IF in.GUID = ""
                  THEN /\ out.GUID # ""
                       /\ [out EXCEPT !.Port = in.Port] = [in EXCEPT !.GUID = out.GUID]
                       /\ ~(IsTCP(in.Domain) /\ ~in.Port.IsSet) => out.Port = in.Port
                       /\ (IsTCP(in.Domain) /\ ~in.Port.IsSet) => out.Port.IsSet
                  ELSE out = in

\* a route without a GUID is created between two routes of which one
\* exists already and one asks for a random port
C6_Witness ==
    /\ pc = "done"
    /\ ret.err = NoError
    /\ args.config.DesiredRoutes = <<RouteA, NewHTTPRoute, NewTCPRoute>>
    /\ Len(calls) = 2

\* C7: a failed create call is the last call of the invocation;
\* CreateRoutes then returns the empty configuration, the flag TRUE, the
\* warnings of every call issued and the error, also when the failing call
\* was the first one.
C7_CreateFailureResets ==
    \A k \in 1..Len(calls) :
        calls[k].err # NoError =>
            /\ k = Len(calls)
            /\ pc = "done"
            /\ ret.config = EmptyConfig
            /\ ret.createdRoutes = TRUE
            /\ ret.warnings = WarningsOfCalls(calls)
            /\ ret.err = calls[k].err

\* the very first create call fails
C7_Witness ==
    /\ pc = "done"
    /\ Len(calls) = 1
    /\ calls[1].err # NoError
    /\ calls[1].warnings # << >>
    /\ Len(args.config.DesiredRoutes) = 3

\* the raw route string u names the existing route e, whatever its scheme
NamesRoute(u, e) == RouteString(e) = StripProtocol(u)

\* the raw route strings that name no existing route, in input order
UnmatchedRaw ==
    SelectSeq(args.routes,
        LAMBDA u : ~\E i \in 1..Len(args.existingRoutes) :
                       NamesRoute(u, args.existingRoutes[i]))

\* the route r is raw route u resolved: u's path and port, the space of the
\* call, and u's hostname split into host and domain
ResolvedFrom(r, u) ==
    /\ r.Path = parseURL(u).path
    /\ r.Port = parseURL(u).port
    /\ r.SpaceGUID = args.spaceGUID
    /\ parseURL(u).host = IF r.Host = << >> THEN r.Domain.Name
                          ELSE r.Host \o <<".">> \o r.Domain.Name

\* the routes returned are `kept` followed by one resolved route for each
\* unmatched raw route, in input order
ReturnsKeptThenResolved(kept) ==
    /\ Len(ret.routes) = Len(kept) + Len(UnmatchedRaw)
    /\ SubSeq(ret.routes, 1, Len(kept)) = kept
    /\ \A k \in 1..Len(UnmatchedRaw) :
          ResolvedFrom(ret.routes[Len(kept) + k], UnmatchedRaw[k])

\* C8 as stated: a successful CalculateRoutes returns the existing routes
\* that some raw route names, then one resolved route per unmatched raw route.
C8_ReturnsMatchedExisting ==
    (pc = "done" /\ ret.err = NoError) =>
        ReturnsKeptThenResolved(
            SelectSeq(args.existingRoutes,
                LAMBDA e : \E i \in 1..Len(args.routes) : NamesRoute(args.routes[i], e)))

\* C8 amended: a successful CalculateRoutes returns every existing route,
\* named by a raw route or not, in the given order, then one resolved route
\* per raw route that names no existing route, in input order.
C8_ReturnsAllExisting ==
    (pc = "done" /\ ret.err = NoError) =>
        ReturnsKeptThenResolved(args.existingRoutes)

\* one raw route names the existing route through its scheme, the other is
\* resolved
C8_Witness ==
    /\ pc = "done"
    /\ ret.err = NoError
    /\ args.existingRoutes = <<RouteA>>
    /\ args.routes = << <<"h", "t", "t", "p", ":", "/", "/", "a", ".", "b", ".", "a">>,
                        <<"b", ".", "b", ".", "a", "/", "p">> >>
    /\ Len(ret.routes) = 2
    /\ ret.routes[2].Host = <<"b">>

LocalErrors ==
    {"HostnameWithTCPDomainError", "NoHostnameAndSharedDomainError",
     "RoutePathWithTCPDomainError"}

\* C10: once the domain is resolved, the outcome of GetGeneratedRoute follows
\* the ordered list: explicit hostname + TCP gives HostnameWithTCPDomainError;
\* else no-hostname + shared + HTTP gives NoHostnameAndSharedDomainError;
\* else the host is empty under no-hostname, the sanitized hostname (or
\* sanitized application name) on an HTTP domain, empty on a TCP domain;
\* and then an explicit path + TCP gives RoutePathWithTCPDomainError,
\* otherwise the path is the manifest's path.
C10_FirstMatchWins ==
    (pc = "done" /\ local.desiredDomain # NoDomain) =>
        LET app == args.manifestApp
            tcp == local.desiredDomain.RouterGroupType = TCP
            http == local.desiredDomain.RouterGroupType = HTTP
            shared == local.desiredDomain.Type = Shared
            explicitHost == app.Hostname # << >>
            explicitPath == app.RoutePath # << >>
            host == IF app.NoHostname THEN << >>
                    ELSE IF http
                    THEN sanitize(IF explicitHost THEN app.Hostname ELSE app.Name)
                    ELSE << >>
        IN  IF explicitHost /\ tcp THEN ret.err = HostnameWithTCPDomainError
            ELSE IF app.NoHostname /\ shared /\ http
            THEN ret.err = NoHostnameAndSharedDomainError
            ELSE IF explicitPath /\ tcp THEN ret.err = RoutePathWithTCPDomainError
            ELSE /\ ret.err.type \notin LocalErrors
                 /\ ret.err = NoError =>
                       ret.route.Host = host /\ ret.route.Path = app.RoutePath

\* no-hostname flag, explicit hostname and explicit path on a shared HTTP
\* domain: the second rule of the list decides
C10_Witness ==
    /\ pc = "done"
    /\ local.desiredDomain = HTTPDomain
    /\ args.manifestApp.NoHostname
    /\ args.manifestApp.Hostname # << >>
    /\ args.manifestApp.RoutePath # << >>
    /\ ret.err = NoHostnameAndSharedDomainError

\* the candidate of the k-th call was kept, without a GUID, by the loop of
\* CalculateRoutes
KeptCandidate(k) ==
    /\ calls[k].route.GUID = ""
    /\ \E j \in 1..Len(local.calculatedRoutes) :
          local.calculatedRoutes[j] = calls[k].route
    /\ (pc = "done" /\ ret.err = NoError) =>
          \E j \in 1..Len(ret.routes) : ret.routes[j] = calls[k].route

\* C9: no operation returns RouteNotFoundError. After a lookup that reports
\* RouteNotFoundError, CalculateRoutes keeps the candidate route with an
\* empty GUID and goes on, GetGeneratedRoute returns the candidate with an
\* empty GUID and no error, CreateAndMapDefaultApplicationRoute goes on to
\* create the route; any other lookup error ends the operation and is the
\* error returned.
C9_RouteNotFoundIsNotAnError ==
    /\ pc = "done" => ret.err.type # "RouteNotFoundError"
    /\ \A k \in 1..Len(calls) :
          calls[k].fn = "FindRouteBoundToSpaceWithSettings" =>
             IF calls[k].err.type = "RouteNotFoundError"
             THEN CASE args.op = "CalculateRoutes" -> KeptCandidate(k)
                    [] args.op = "GetGeneratedRoute" ->
                          /\ pc = "done"
                          /\ ret.err = NoError
                          /\ ret.route = calls[k].route
                          /\ ret.route.GUID = ""
                    [] args.op = "CreateAndMapDefaultApplicationRoute" ->
                          IF k = Len(calls) THEN pc = "DefaultCreate"
                          ELSE calls[k + 1].fn = "CreateRoute"
             ELSE calls[k].err # NoError =>
                     /\ k = Len(calls)
                     /\ pc = "done"
                     /\ ret.err = calls[k].err

\* CreateAndMapDefaultApplicationRoute has created and mapped the route
\* after the lookup reported RouteNotFoundError
C9_Witness ==
    /\ pc = "done"
    /\ args.op = "CreateAndMapDefaultApplicationRoute"
    /\ Len(calls) = 5
    /\ calls[3].err = RouteNotFoundError
    /\ calls[4].fn = "CreateRoute"
    /\ ret.err = NoError

\* the manifest passes the hostname and path checks on the resolved domain
ManifestFits(app, domain) ==
    /\ ~(app.Hostname # << >> /\ domain.RouterGroupType = TCP)
    /\ ~(app.NoHostname /\ domain.Type = Shared /\ domain.RouterGroupType = HTTP)
    /\ ~(app.RoutePath # << >> /\ domain.RouterGroupType = TCP)

DomainLookups == {"DefaultDomain", "GetDomainsByNameAndOrganization"}

\* C11 as stated: when GetGeneratedRoute fails with one of the three
\* validation errors, no external client call was issued by the invocation.
C11_NoCallBeforeValidation ==
    (pc = "done" /\ ret.err.type \in LocalErrors) => calls = << >>

\* C11 amended: when GetGeneratedRoute fails with one of the three
\* validation errors, the only external call of the invocation is the
\* successful domain lookup of calculateDomain, whose warnings are returned
\* with the empty route; and a route lookup is only ever issued for a
\* manifest that passes the three checks on the resolved domain.
C11_OnlyTheDomainLookupBeforeValidation ==
    /\ (pc = "done" /\ ret.err.type \in LocalErrors) =>
          /\ Len(calls) = 1
          /\ calls[1].fn \in DomainLookups
          /\ calls[1].err = NoError
          /\ ret.warnings = calls[1].warnings
          /\ ret.route = NoRoute
    /\ \A k \in 1..Len(calls) :
          calls[k].fn = "FindRouteBoundToSpaceWithSettings" =>
             ManifestFits(args.manifestApp, local.desiredDomain)

\* a path on the default domain, found to be a TCP domain by the lookup
C11_Witness ==
    /\ pc = "done"
    /\ ret.err = RoutePathWithTCPDomainError
    /\ args.manifestApp.Domain = << >>
    /\ Len(calls) = 1
    /\ calls[1].fn = "DefaultDomain"
    /\ calls[1].warnings # << >>

\* C12: whatever the public operation and however it ends, the warnings it
\* returns are the warnings of the external calls it issued, concatenated in
\* call order, the failing call's warnings included.
C12_WarningsOfEveryCall ==
    pc = "done" => ret.warnings = WarningsOfCalls(calls)

\* GetGeneratedRoute fails on its second call; both calls had a warning
C12_Witness ==
    /\ pc = "done"
    /\ ret.op = "GetGeneratedRoute"
    /\ ret.err = APIError
    /\ Len(calls) = 2
    /\ ret.warnings = <<WarningOf(1), WarningOf(2)>>

\* the string has an ASCII letter or digit
HasValidChar(s) ==
    \E i \in 1..Len(s) : s[i] \in LowerCase \cup UpperCase \cup Digits

\* C13 as stated: a route returned without error by GetGeneratedRoute has
\* a non-empty host or a TCP domain, and not both.
C13_HostOrTCPNotBoth ==
    (pc = "done" /\ ret.err = NoError) =>
        (ret.route.Host # << >>) # (ret.route.Domain.RouterGroupType = TCP)

\* C13 amended: a route returned without error on a TCP domain has an empty
\* host; a route returned on an HTTP domain has an empty host exactly when
\* the no-hostname flag is set (the domain is then not shared) or the
\* explicit hostname, else the application name, has no letter or digit;
\* otherwise its host is non-empty.
C13_EmptyHostOnTCPOrFlagOrBlankName ==
    (pc = "done" /\ ret.err = NoError) =>
        LET app == args.manifestApp
            name == IF app.Hostname # << >> THEN app.Hostname ELSE app.Name
        IN  IF ret.route.Domain.RouterGroupType = TCP
            THEN ret.route.Host = << >>
            ELSE /\ (ret.route.Host = << >>) <=> (app.NoHostname \/ ~HasValidChar(name))
                 /\ app.NoHostname => ret.route.Domain.Type # Shared

\* the application name "---" on a shared HTTP domain, no flag set: the
\* route is returned with an empty host
C13_Witness ==
    /\ pc = "done"
    /\ ret.err = NoError
    /\ ret.route.Domain = HTTPDomain
    /\ ~args.manifestApp.NoHostname
    /\ args.manifestApp.Name = <<"-", "-", "-">>
    /\ args.manifestApp.Hostname = << >>
    /\ ret.route.Host = << >>

\* the calls of a CalculateRoutes invocation are the domain lookup and then
\* one route lookup for each of the first n unknown raw routes
LookedUpFirst(n) ==
    /\ Len(calls) = n + 1
    /\ calls[1].fn = "GetDomainsByNameAndOrganization"
    /\ \A k \in 1..n :
          /\ calls[k + 1].fn = "FindRouteBoundToSpaceWithSettings"
          /\ ResolvedFrom(calls[k + 1].route, local.unknownRoutes[k])

\* C14: when calculateRoute fails with DomainNotFoundError for the unknown
\* raw route under way, CalculateRoutes ends at once, without another call,
\* returning no routes, the warnings of the calls issued so far and
\* NoMatchingDomainError carrying that raw route string; the route lookups
\* issued are those of the raw routes before it, none for it or a later one.
C14_NoMatchingDomainEndsTheCall ==
    /\ [][(/\ pc = "CalcResolve"
           /\ ~calculateRoute(local.root, local.nameToFoundDomain).panic
           /\ calculateRoute(local.root, local.nameToFoundDomain).err.type
                  = "DomainNotFoundError")
          => /\ pc' = "done"
             /\ calls' = calls
             /\ ret'.err = [type |-> "NoMatchingDomainError",
                            Route |-> local.unknownRoutes[local.i]]
             /\ ret'.routes = << >>
             /\ ret'.warnings = WarningsOfCalls(calls)]_vars
    /\ []((pc = "done" /\ ret.err.type = "NoMatchingDomainError")
            => LookedUpFirst(local.i - 1))

\* the second unknown raw route has no known domain, after the first was
\* resolved and looked up; both calls had a warning
C14_Witness ==
    /\ pc = "done"
    /\ ret.err.type = "NoMatchingDomainError"
    /\ local.i = 2
    /\ ret.err.Route = local.unknownRoutes[2]
    /\ ret.warnings = <<WarningOf(1), WarningOf(2)>>

\* the positions of s between its first and its last letter or digit that
\* hold a letter, a digit, a space or a hyphen
KeptPositions(s) ==
    LET valid == {i \in 1..Len(s) : s[i] \in LowerCase \cup UpperCase \cup Digits}
    IN  {i \in 1..Len(s) :
            /\ \E j \in valid : j <= i
            /\ \E j \in valid : i <= j
            /\ s[i] \in LowerCase \cup UpperCase \cup Digits \cup {" ", "-"}}

\* out is s cut down to KeptPositions(s), uppercase lowered and each space
\* or hyphen a hyphen
IsSanitized(out, s) ==
    /\ Len(out) = Cardinality(KeptPositions(s))
    /\ \A i \in KeptPositions(s) :
          out[Cardinality({j \in KeptPositions(s) : j <= i})] =
             IF s[i] \in {" ", "-"} THEN "-" ELSE ToLower(s[i])

\* C15: sanitize returns lowercase letters, digits and hyphens only, with
\* no hyphen at either end; the empty string exactly for a name without a
\* letter or digit; otherwise the name with letters and digits kept in
\* order and lowered, spaces and hyphens as hyphens, the rest dropped and
\* the hyphens at both ends stripped; " My App! " gives "my-app", "---"
\* gives "", "A_B" gives "ab"; and sanitizing the result changes nothing.
C15_SanitizeIsADnsLabel ==
    /\ pc # "sanitize" =>
          /\ \A i \in 1..Len(ret.name) : ret.name[i] \in LowerCase \cup Digits \cup {"-"}
          /\ ret.name # << >> => ret.name[1] # "-" /\ ret.name[Len(ret.name)] # "-"
          /\ (ret.name = << >>) <=> ~HasValidChar(args.name)
          /\ IsSanitized(ret.name, args.name)
          /\ args.name = <<" ", "M", "y", " ", "A", "p", "p", "!", " ">>
                 => ret.name = <<"m", "y", "-", "a", "p", "p">>
          /\ args.name = <<"-", "-", "-">> => ret.name = << >>
          /\ args.name = <<"A", "_", "B">> => ret.name = <<"a", "b">>
    /\ pc = "done" => local.name = ret.name

\* white space and hyphens around and inside the name, sanitized twice
C15_Witness ==
    /\ pc = "done"
    /\ args.name = <<"\t", "-", "a", " ", "\t", "b", "-", " ">>
    /\ ret.name = <<"a", "-", "b">>
    /\ local.name = <<"a", "-", "b">>

\* C16: the unbind calls of UnmapRoutes are, at every moment, for the first
\* current routes in input order, whether desired or not; when none fails
\* there is one per current route and the configuration is returned with
\* CurrentRoutes empty, the application and DesiredRoutes as given.
C16_UnmapUnbindsEveryCurrentRoute ==
    /\ Len(calls) <= Len(args.config.CurrentRoutes)
    /\ \A k \in 1..Len(calls) :
          /\ calls[k].fn = "UnmapRouteFromApplication"
          /\ calls[k].routeGUID = args.config.CurrentRoutes[k].GUID
          /\ calls[k].appGUID = args.config.DesiredApplication.GUID
    /\ (pc = "done" /\ ret.err = NoError) =>
          /\ Len(calls) = Len(args.config.CurrentRoutes)
          /\ ret.config.CurrentRoutes = << >>
          /\ ret.config.DesiredRoutes = args.config.DesiredRoutes
          /\ ret.config.DesiredApplication = args.config.DesiredApplication
          /\ bound = {}

\* three current routes, the first of them also the desired route, all
\* unbound
C16_Witness ==
    /\ pc = "done"
    /\ ret.err = NoError
    /\ args.config.DesiredRoutes = <<RouteA>>
    /\ args.config.CurrentRoutes = <<RouteA, RouteB, RouteA2>>
    /\ Len(calls) = 3

\* C17 as stated: CalculateRoutes never crashes, and a raw route whose
\* hostname has no dot makes calculateRoute return DomainNotFoundError and
\* CalculateRoutes return NoMatchingDomainError for that raw route.
C17_DotlessHostnameIsNoMatchingDomain ==
    /\ pc # "panic"
    /\ (pc = "CalcResolve" /\ Count(local.root, ".") = 0) =>
          /\ ~calculateRoute(local.root, local.nameToFoundDomain).panic
          /\ calculateRoute(local.root, local.nameToFoundDomain).err.type
                 = "DomainNotFoundError"
    /\ (pc = "done" /\ ret.err = NoError) =>
          \A i \in 1..Len(local.unknownRoutes) :
             Count(parseURL(local.unknownRoutes[i]).host, ".") >= 1

\* the raw route "a" was parsed, its hostname has no dot, and the call
\* ended in the index-out-of-range panic of splitHost
C17_Witness ==
    /\ pc = "panic"
    /\ local.unknownRoutes[local.i] = <<"a">>
    /\ local.root = <<"a">>
    /\ ret = NoRet

\* C18: CalculateRoutes issues its one domain lookup first, and only when
\* every unmatched raw route parses, also when there is none; every later
\* call is a route lookup; and every name calculateRoute looks up in the
\* map of found domains, when it resolves the hostname of an unknown raw
\* route, is among the names sent in that one lookup.
C18_OneSufficientDomainLookup ==
    /\ \A k \in 1..Len(calls) :
          (calls[k].fn = "GetDomainsByNameAndOrganization") <=> (k = 1)
    /\ pc \in {"done", "panic"} =>
          ((calls # << >>) <=>
              \A k \in 1..Len(UnmatchedRaw) : parseURL(UnmatchedRaw[k]).err = NoError)
    /\ pc = "CalcResolve" =>
          /\ local.root = parseURL(UnmatchedRaw[local.i]).host
          /\ domainCacheReads(local.root, local.nameToFoundDomain)
                 \subseteq calls[1].names

\* two unknown raw routes resolved after one lookup of their three candidate
\* names; the last one was matched on its second read of the map
C18_Witness ==
    /\ pc = "done"
    /\ ret.err = NoError
    /\ Len(local.unknownRoutes) = 2
    /\ Len(calls) = 3
    /\ Cardinality(calls[1].names) = 3
    /\ domainCacheReads(local.root, local.nameToFoundDomain)
          = {<<"b", ".", "b", ".", "a">>, <<"b", ".", "a">>}

CallNames == [k \in 1..Len(calls) |-> calls[k].fn]

\* the call sequences of a CreateAndMapDefaultApplicationRoute invocation
\* that ran to its last call
DefaultCallOrders ==
    { <<"DefaultDomain", "GetApplicationRoutes">>,
      <<"DefaultDomain", "GetApplicationRoutes", "FindRouteBoundToSpaceWithSettings",
        "MapRouteToApplication">>,
      <<"DefaultDomain", "GetApplicationRoutes", "FindRouteBoundToSpaceWithSettings",
        "CreateRoute", "MapRouteToApplication">> }

\* C20: the calls of CreateAndMapDefaultApplicationRoute are, in order, the
\* default domain, the application's routes, the route lookup, a create and
\* a map, ended by the first error other than the lookup's
\* RouteNotFoundError; nothing follows the listing when it holds a route
\* with the host, path, port, space and domain GUID of the default route;
\* the create follows a RouteNotFoundError only; the one map call comes
\* last, with the GUID of the route found or created; and the invocation
\* that follows a successful one issues no create and no map call.
C20_DefaultRouteCallOrder ==
    /\ \E order \in DefaultCallOrders :
          Len(calls) <= Len(order) /\ CallNames = SubSeq(order, 1, Len(calls))
    /\ \A k \in 1..Len(calls) :
          /\ (calls[k].err # NoError /\ calls[k].err # RouteNotFoundError) =>
                k = Len(calls) /\ pc = "done" /\ ret.err = calls[k].err
          /\ calls[k].err = RouteNotFoundError => k = 3
    /\ (Len(calls) >= 2 /\ calls[2].err = NoError) =>
          IF \E i \in 1..Len(local.boundRoutes) :
                /\ local.boundRoutes[i].Host = args.app.Name
                /\ local.boundRoutes[i].Path = << >>
                /\ ~local.boundRoutes[i].Port.IsSet
                /\ local.boundRoutes[i].SpaceGUID = args.spaceGUID
                /\ local.boundRoutes[i].Domain.GUID = local.defaultRoute.Domain.GUID
          THEN Len(calls) = 2 /\ pc = "done" /\ ret.err = NoError
          ELSE pc = "done" => Len(calls) >= 3
    /\ Len(calls) >= 4 =>
          ((calls[4].fn = "CreateRoute") <=> (calls[3].err = RouteNotFoundError))
    /\ \A k \in 1..Len(calls) :
          calls[k].fn = "MapRouteToApplication" =>
             /\ pc = "done"
             /\ calls[k].appGUID = args.app.GUID
             /\ calls[k].routeGUID \in
                   IF calls[k - 1].fn = "CreateRoute" THEN NewGUIDs ELSE FoundGUIDs
    /\ args.platform.known => Len(calls) <= 2

\* the first invocation created and mapped the route; the second one ends
\* after the listing in which it finds that route
C20_Witness ==
    /\ pc = "done"
    /\ args.platform.known
    /\ Len(args.platform.appRoutes) = 2
    /\ args.platform.appRoutes[2].GUID \in NewGUIDs
    /\ Len(calls) = 2
    /\ ret.err = NoError

====
